---- MODULE Spec2Model ----
(***************************************************************************)
(* The rhythmify auth service: shared/jwt (JWTManager), the authentication *)
(* gates of internal/middleware/jwt.go, and the account operations of      *)
(* internal/service/auth.go over the users table of internal/repository,   *)
(* answered through internal/handlers and shared/response.                 *)
(*                                                                         *)
(* Time is counted in ticks, TicksPerSec ticks to the second, so that the  *)
(* one-second precision of jwt.NumericDate is visible: time.Now() has      *)
(* sub-second resolution, the timestamps inside a token do not.            *)
(*                                                                         *)
(* A token string is the record [parts, alg, claims, sig]: the number of   *)
(* dot-separated segments, the "alg" of the header, the decoded payload    *)
(* and the signature segment.  A MAC is the record of what it was computed *)
(* from (algorithm, key, signed text): two MACs are equal exactly when     *)
(* they were computed with the same algorithm and key over the same text.  *)
(* A value that may be nil is a sequence of length 0 or 1; an error is the *)
(* sequence of its messages, outermost wrapper first, and nil is << >>.    *)
(***************************************************************************)
EXTENDS Integers, Sequences, FiniteSets, TLC

(* ------------------------------ bounds -------------------------------- *)
TicksPerSec == 2
MaxTime == 5
MaxHeld == 4
ClockSkew == 2

(* ------------------------ inputs of the model ------------------------- *)
OwnSecret == "k1"
Secrets == {"k1", "k2"}
AccessDurations == {1, 2}
RefreshDurations == {4}
Identities ==
    { [UserID |-> 1, Email |-> "a@x.com", Username |-> "alice"],
      [UserID |-> 2, Email |-> "b@x.com", Username |-> "bob"] }

(* ------------------------- shared/jwt: types -------------------------- *)
AccessToken == "access"
RefreshToken == "refresh"
Issuer == "rhythmify-auth"

SigningMethodHS256 == "HS256"
SigningMethodHMAC == {"HS256", "HS384", "HS512"}
RegisteredMethods ==
    SigningMethodHMAC \cup {"none", "RS256", "ES256", "PS256", "EdDSA"}

NilError == << >>
Errorf(msg, err) == <<msg>> \o err
ErrorsNew(msg) == <<msg>>

NewJWTManager(secretKey, accessDuration, refreshDuration) ==
    [ secretKey |-> secretKey,
      accessTokenDuration |-> accessDuration,
      refreshTokenDuration |-> refreshDuration ]

VARIABLES now, jwtManager, held, out, users, uniqueIndex, procs, used
vars == <<now, jwtManager, held, out, users, uniqueIndex, procs, used>>
acctVars == <<users, uniqueIndex, procs>>

(* --------------------- golang-jwt: codec and signer ------------------- *)
NewNumericDate(t) == t \div TicksPerSec
NumericDateTime(d) == d * TicksPerSec

SigningString(alg, claims) == <<alg, claims>>
HMACSign(alg, key, text) == [alg |-> alg, key |-> key, text |-> text]

SignedString(alg, claims, key) ==
    [ parts |-> 3, alg |-> alg, claims |-> claims,
      sig |-> <<HMACSign(alg, key, SigningString(alg, claims))>> ]

HMACVerify_IgnoresKey(alg, text, sig, key) ==
    /\ sig # << >>
    /\ sig[1].alg = alg
    /\ sig[1].text = text

HMACVerify(alg, text, sig, key) ==
    sig = <<HMACSign(alg, key, text)>>

MethodVerify(alg, text, sig, key) ==
    IF alg \in SigningMethodHMAC THEN HMACVerify(alg, text, sig, key)
    ELSE FALSE

VerifyExpiresAt_Inclusive(claims, t) == t <= NumericDateTime(claims.ExpiresAt)

VerifyExpiresAt(claims, t) == t < NumericDateTime(claims.ExpiresAt)
VerifyNotBefore(claims, t) == t >= NumericDateTime(claims.NotBefore)

KeyFunc_WrongKey(j, alg) ==
    IF alg \notin SigningMethodHMAC
    THEN [key |-> "", err |-> ErrorsNew("unexpected signing method")]
    ELSE [key |-> "", err |-> NilError]

KeyFunc(j, alg) ==
    IF alg \notin SigningMethodHMAC
    THEN [key |-> "", err |-> ErrorsNew("unexpected signing method")]
    ELSE [key |-> j.secretKey, err |-> NilError]

ParseUnverified(j, tokenString, t) ==
    IF tokenString.parts # 3
    THEN [claims |-> << >>, valid |-> FALSE,
          err |-> ErrorsNew("token is malformed")]
    ELSE [claims |-> <<tokenString.claims>>, valid |-> TRUE, err |-> NilError]

ParseWithClaims(j, tokenString, t) ==
    IF tokenString.parts # 3
    THEN [claims |-> << >>, valid |-> FALSE,
          err |-> ErrorsNew("token is malformed")]
    ELSE IF tokenString.alg \notin RegisteredMethods
    THEN [claims |-> <<tokenString.claims>>, valid |-> FALSE,
          err |-> <<"token is unverifiable",
                    "signing method (alg) is unavailable">>]
    ELSE IF KeyFunc(j, tokenString.alg).err # NilError
    THEN [claims |-> <<tokenString.claims>>, valid |-> FALSE,
          err |-> <<"token is unverifiable", "error while executing keyfunc">>
                  \o KeyFunc(j, tokenString.alg).err]
    ELSE IF ~MethodVerify(tokenString.alg,
                          SigningString(tokenString.alg, tokenString.claims),
                          tokenString.sig, KeyFunc(j, tokenString.alg).key)
    THEN [claims |-> <<tokenString.claims>>, valid |-> FALSE,
          err |-> <<"token signature is invalid", "signature is invalid">>]
    ELSE IF ~VerifyExpiresAt(tokenString.claims, t)
    THEN [claims |-> <<tokenString.claims>>, valid |-> FALSE,
          err |-> <<"token has invalid claims", "token is expired">>
                  \o (IF VerifyNotBefore(tokenString.claims, t) THEN << >>
                      ELSE <<"token is not valid yet">>)]
    ELSE IF ~VerifyNotBefore(tokenString.claims, t)
    THEN [claims |-> <<tokenString.claims>>, valid |-> FALSE,
          err |-> <<"token has invalid claims", "token is not valid yet">>]
    ELSE [claims |-> <<tokenString.claims>>, valid |-> TRUE, err |-> NilError]

(* ------------------------ shared/jwt: JWTManager ---------------------- *)
generateToken(j, userID, email, username, tokenType, duration, t) ==
    SignedString(SigningMethodHS256,
                 [ UserID |-> userID,
                   Email |-> email,
                   Username |-> username,
                   Type |-> tokenType,
                   Subject |-> ToString(userID),
                   IssuedAt |-> NewNumericDate(t),
                   ExpiresAt |-> NewNumericDate(t + duration),
                   NotBefore |-> NewNumericDate(t),
                   Issuer |-> Issuer ],
                 j.secretKey)

Seconds(duration) ==
    IF duration >= 0 THEN duration \div TicksPerSec
    ELSE -((-duration) \div TicksPerSec)

(* jwt.SigningMethodHS256 signs with a []byte key, which is what           *)
(* NewJWTManager stores: SignedString has no failing outcome here, so the  *)
(* two error returns of GenerateTokenPair (each before the pair is built)  *)
(* are never taken and err is nil.                                         *)
GenerateTokenPair_RefreshLifetime(j, userID, email, username, t) ==
    [ pair |-> << [ AccessToken |-> generateToken(j, userID, email, username,
                                       AccessToken, j.refreshTokenDuration, t),
                    RefreshToken |-> generateToken(j, userID, email, username,
                                       RefreshToken, j.refreshTokenDuration, t),
                    ExpiresIn |-> Seconds(j.refreshTokenDuration) ] >>,
      err |-> NilError ]

GenerateTokenPair(j, userID, email, username, t) ==
    [ pair |-> << [ AccessToken |-> generateToken(j, userID, email, username,
                                       AccessToken, j.accessTokenDuration, t),
                    RefreshToken |-> generateToken(j, userID, email, username,
                                       RefreshToken, j.refreshTokenDuration, t),
                    ExpiresIn |-> Seconds(j.accessTokenDuration) ] >>,
      err |-> NilError ]

ValidateToken_AccessOnly(j, tokenString, t) ==
    LET parsed == ParseWithClaims(j, tokenString, t)
    IN  IF parsed.err # NilError
        THEN [claims |-> << >>, err |-> Errorf("failed to parse token", parsed.err)]
        ELSE IF ~parsed.valid \/ parsed.claims[1].Type # AccessToken
        THEN [claims |-> << >>, err |-> ErrorsNew("invalid token")]
        ELSE [claims |-> parsed.claims, err |-> NilError]

ValidateToken_OpaqueError(j, tokenString, t) ==
    LET parsed == ParseWithClaims(j, tokenString, t)
    IN  IF parsed.err # NilError \/ ~parsed.valid
        THEN [claims |-> << >>, err |-> ErrorsNew("invalid token")]
        ELSE [claims |-> parsed.claims, err |-> NilError]

ValidateToken(j, tokenString, t) ==
    LET parsed == ParseWithClaims(j, tokenString, t)
    IN  IF parsed.err # NilError
        THEN [claims |-> << >>, err |-> Errorf("failed to parse token", parsed.err)]
        ELSE IF ~parsed.valid
        THEN [claims |-> << >>, err |-> ErrorsNew("invalid token")]
        ELSE [claims |-> parsed.claims, err |-> NilError]

RefreshAccessToken_AnyKind(j, refreshTokenString, t) ==
    LET v == ValidateToken(j, refreshTokenString, t)
    IN  IF v.err # NilError
        THEN [pair |-> << >>, err |-> Errorf("invalid refresh token", v.err)]
        ELSE GenerateTokenPair(j, v.claims[1].UserID, v.claims[1].Email,
                               v.claims[1].Username, t)

RefreshAccessToken_SubjectOnly(j, refreshTokenString, t) ==
    LET v == ValidateToken(j, refreshTokenString, t)
    IN  IF v.err # NilError
        THEN [pair |-> << >>, err |-> Errorf("invalid refresh token", v.err)]
        ELSE IF v.claims[1].Type # RefreshToken
        THEN [pair |-> << >>, err |-> ErrorsNew("token is not a refresh token")]
        ELSE GenerateTokenPair(j, v.claims[1].UserID, "", "", t)

(* A refresh as it would be were the session to end with the first refresh *)
(* token: the new pair lives no longer than the token presented.           *)
RefreshAccessToken_SessionBound(j, refreshTokenString, t) ==
    LET v == ValidateToken(j, refreshTokenString, t)
        left == NumericDateTime(v.claims[1].ExpiresAt) - t
        access == IF j.accessTokenDuration < left THEN j.accessTokenDuration
                  ELSE left
    IN  IF v.err # NilError
        THEN [pair |-> << >>, err |-> Errorf("invalid refresh token", v.err)]
        ELSE IF v.claims[1].Type # RefreshToken
        THEN [pair |-> << >>, err |-> ErrorsNew("token is not a refresh token")]
        ELSE GenerateTokenPair(
                 [j EXCEPT !.accessTokenDuration = access,
                           !.refreshTokenDuration = left],
                 v.claims[1].UserID, v.claims[1].Email, v.claims[1].Username,
                 t)

RefreshAccessToken(j, refreshTokenString, t) ==
    LET v == ValidateToken(j, refreshTokenString, t)
    IN  IF v.err # NilError
        THEN [pair |-> << >>, err |-> Errorf("invalid refresh token", v.err)]
        ELSE IF v.claims[1].Type # RefreshToken
        THEN [pair |-> << >>, err |-> ErrorsNew("token is not a refresh token")]
        ELSE GenerateTokenPair(j, v.claims[1].UserID, v.claims[1].Email,
                               v.claims[1].Username, t)

(* ---------------------- internal/service: AuthService ------------------ *)
AuthService_RefreshToken(j, refreshToken, t) ==
    LET r == RefreshAccessToken(j, refreshToken, t)
    IN  IF r.err # NilError
        THEN [pair |-> << >>, err |-> Errorf("invalid refresh token", r.err)]
        ELSE [pair |-> r.pair, err |-> NilError]

AuthService_ValidateToken(j, tokenString, t) ==
    LET v == ValidateToken(j, tokenString, t)
    IN  IF v.err # NilError
        THEN [claims |-> << >>, err |-> Errorf("invalid token", v.err)]
        ELSE [claims |-> v.claims, err |-> NilError]

(* ------------------- internal/middleware: the two gates --------------- *)
(* An Authorization header value is a sequence: << >> is the empty string, *)
(* otherwise the first element is the leading scheme text and the second,  *)
(* when present, the rest of the value.                                    *)
StatusUnauthorized == 401

HasPrefix(authHeader, prefix) ==
    Len(authHeader) >= 1 /\ authHeader[1] = prefix

TrimPrefix(authHeader, prefix) ==
    IF HasPrefix(authHeader, prefix) THEN Tail(authHeader) ELSE authHeader

Unauthorized(message) ==
    [ aborted |-> TRUE, status |-> StatusUnauthorized, error |-> message,
      code |-> "UNAUTHORIZED", nextCalls |-> 0, keys |-> << >> ]

NextAnonymous ==
    [ aborted |-> FALSE, status |-> 0, error |-> "", code |-> "",
      nextCalls |-> 1, keys |-> << >> ]

NextWithIdentity(claims) ==
    [ aborted |-> FALSE, status |-> 0, error |-> "", code |-> "",
      nextCalls |-> 1,
      keys |-> << [ user_id |-> claims.UserID,
                    user_email |-> claims.Email,
                    user_username |-> claims.Username,
                    user_claims |-> claims ] >> ]

(* What a handler behind the gate reads back from the request context.    *)
GetUserIDFromContext_Fixed(keys) ==
    [ id |-> 1, ok |-> keys # << >> ]

GetUserIDFromContext(keys) ==
    IF keys = << >> THEN [ id |-> 0, ok |-> FALSE ]
    ELSE [ id |-> keys[1].user_id, ok |-> TRUE ]

JWTMiddleware_NoKindCheck(j, authHeader, t) ==
    IF authHeader = << >>
    THEN Unauthorized("Authorization header is required")
    ELSE IF ~HasPrefix(authHeader, "Bearer ")
    THEN Unauthorized("Authorization header must start with 'Bearer '")
    ELSE IF TrimPrefix(authHeader, "Bearer ") = << >>
    THEN Unauthorized("Token is required")
    ELSE LET v == ValidateToken(j, TrimPrefix(authHeader, "Bearer ")[1], t)
         IN  IF v.err # NilError
             THEN Unauthorized("Invalid or expired token")
             ELSE NextWithIdentity(v.claims[1])

JWTMiddleware(j, authHeader, t) ==
    IF authHeader = << >>
    THEN Unauthorized("Authorization header is required")
    ELSE IF ~HasPrefix(authHeader, "Bearer ")
    THEN Unauthorized("Authorization header must start with 'Bearer '")
    ELSE IF TrimPrefix(authHeader, "Bearer ") = << >>
    THEN Unauthorized("Token is required")
    ELSE LET v == ValidateToken(j, TrimPrefix(authHeader, "Bearer ")[1], t)
         IN  IF v.err # NilError
             THEN Unauthorized("Invalid or expired token")
             ELSE IF v.claims[1].Type # AccessToken
             THEN Unauthorized("Invalid token type")
             ELSE NextWithIdentity(v.claims[1])

OptionalJWTMiddleware_Rejecting(j, authHeader, t) ==
    IF authHeader = << >>
    THEN NextAnonymous
    ELSE IF ~HasPrefix(authHeader, "Bearer ")
    THEN NextAnonymous
    ELSE IF TrimPrefix(authHeader, "Bearer ") = << >>
    THEN Unauthorized("Token is required")
    ELSE LET v == ValidateToken(j, TrimPrefix(authHeader, "Bearer ")[1], t)
         IN  IF v.err # NilError
             THEN Unauthorized("Invalid or expired token")
             ELSE IF v.claims[1].Type # AccessToken
             THEN NextAnonymous
             ELSE NextWithIdentity(v.claims[1])

OptionalJWTMiddleware_NoKindCheck(j, authHeader, t) ==
    IF authHeader = << >>
    THEN NextAnonymous
    ELSE IF ~HasPrefix(authHeader, "Bearer ")
    THEN NextAnonymous
    ELSE IF TrimPrefix(authHeader, "Bearer ") = << >>
    THEN NextAnonymous
    ELSE LET v == ValidateToken(j, TrimPrefix(authHeader, "Bearer ")[1], t)
         IN  IF v.err # NilError
             THEN NextAnonymous
             ELSE NextWithIdentity(v.claims[1])

OptionalJWTMiddleware(j, authHeader, t) ==
    IF authHeader = << >>
    THEN NextAnonymous
    ELSE IF ~HasPrefix(authHeader, "Bearer ")
    THEN NextAnonymous
    ELSE IF TrimPrefix(authHeader, "Bearer ") = << >>
    THEN NextAnonymous
    ELSE LET v == ValidateToken(j, TrimPrefix(authHeader, "Bearer ")[1], t)
         IN  IF v.err # NilError
             THEN NextAnonymous
             ELSE IF v.claims[1].Type # AccessToken
             THEN NextAnonymous
             ELSE NextWithIdentity(v.claims[1])

(* ----------------------- internal/models: User ------------------------ *)
(* A bcrypt hash is the record of the password it was computed from (the   *)
(* salt plays no part in CompareHashAndPassword's verdict).                *)
GenerateFromPassword(password) == [bcrypt |-> password]
CompareHashAndPassword(hash, password) == hash = [bcrypt |-> password]

NewUser(email, username, password) ==
    [ ID |-> 0, Email |-> email, Username |-> username,
      Password |-> <<password>>, TelegramID |-> << >> ]

HashPassword(u) ==
    [u EXCEPT !.Password = <<GenerateFromPassword(u.Password[1])>>]

(* The error of a GenerateFromPassword that fails (a password longer than  *)
(* bcrypt takes, no random salt to be had); HashPassword returns it as is. *)
HashError == "bcrypt: password length exceeds 72 bytes"

CheckPassword_Any(u, password) == TRUE

CheckPassword(u, password) ==
    CompareHashAndPassword(u.Password[1], password)

ToResponse(u) ==
    [ ID |-> u.ID, Email |-> u.Email, Username |-> u.Username,
      TelegramID |-> u.TelegramID ]

(* ------------- internal/repository: postgresUserRepository ------------- *)
(* The users table is the sequence of its rows in insertion order; the id  *)
(* of a row is its position (a serial column).  Every call is one round    *)
(* trip, which either fails as a whole (fault: the driver returns an error *)
(* other than pgx.ErrNoRows, and nothing is written) or is executed.  The  *)
(* migrations are not part of the sources: unique says whether the table   *)
(* carries unique constraints on email, username and telegram_id.  A       *)
(* QueryRow that matches several rows scans one of them, so a lookup is    *)
(* the set of results it can return.                                       *)
ConnError == "connection refused"
UniqueViolation == "duplicate key value violates unique constraint"

Rows(rows) == 1..Len(rows)

QueryRowUser(rows, matches, fault, notFound, failed) ==
    IF fault THEN { [user |-> << >>, err |-> <<failed, ConnError>>] }
    ELSE IF matches = {} THEN { [user |-> << >>, err |-> <<notFound>>] }
    ELSE { [user |-> <<rows[i]>>, err |-> NilError] : i \in matches }

GetByID(rows, id, fault) ==
    QueryRowUser(rows, { i \in Rows(rows) : rows[i].ID = id }, fault,
                 "user with id %d not found", "failed to get user by id")

GetByEmail(rows, email, fault) ==
    QueryRowUser(rows, { i \in Rows(rows) : rows[i].Email = email }, fault,
                 "user with email %s not found",
                 "failed to get user by email")

GetByTelegramID(rows, telegramID, fault) ==
    QueryRowUser(rows,
                 { i \in Rows(rows) : rows[i].TelegramID = <<telegramID>> },
                 fault, "user with telegram_id %d not found",
                 "failed to get user by telegram_id")

CheckEmailExists(rows, email, fault) ==
    IF fault
    THEN [exists |-> FALSE,
          err |-> <<"failed to check email existence", ConnError>>]
    ELSE [exists |-> \E i \in Rows(rows) : rows[i].Email = email,
          err |-> NilError]

CheckUsernameExists(rows, username, fault) ==
    IF fault
    THEN [exists |-> FALSE,
          err |-> <<"failed to check username existence", ConnError>>]
    ELSE [exists |-> \E i \in Rows(rows) : rows[i].Username = username,
          err |-> NilError]

(* Would row u, stored in place of row id (0: as a new row), repeat the    *)
(* email, username or telegram id of another row?                          *)
Duplicates(rows, id, u) ==
    \E i \in Rows(rows) \ {id} :
        \/ rows[i].Email = u.Email
        \/ rows[i].Username = u.Username
        \/ (u.TelegramID # << >> /\ rows[i].TelegramID = u.TelegramID)

Create_Unconstrained(rows, unique, user, fault) ==
    IF fault
    THEN [rows |-> rows, user |-> user,
          err |-> <<"failed to create user", ConnError>>]
    ELSE [rows |-> Append(rows, [user EXCEPT !.ID = Len(rows) + 1]),
          user |-> [user EXCEPT !.ID = Len(rows) + 1],
          err |-> NilError]

Create(rows, unique, user, fault) ==
    IF fault
    THEN [rows |-> rows, user |-> user,
          err |-> <<"failed to create user", ConnError>>]
    ELSE IF unique /\ Duplicates(rows, 0, user)
    THEN [rows |-> rows, user |-> user,
          err |-> <<"failed to create user", UniqueViolation>>]
    ELSE [rows |-> Append(rows, [user EXCEPT !.ID = Len(rows) + 1]),
          user |-> [user EXCEPT !.ID = Len(rows) + 1],
          err |-> NilError]

(* Update as it would be were password_hash among the columns it sets.    *)
Update_ResetsPassword(rows, unique, user, fault) ==
    IF fault
    THEN [rows |-> rows, err |-> <<"failed to update user", ConnError>>]
    ELSE IF user.ID \notin Rows(rows)
    THEN [rows |-> rows, err |-> <<"user with id %d not found">>]
    ELSE [rows |-> [rows EXCEPT ![user.ID].Email = user.Email,
                                ![user.ID].Username = user.Username,
                                ![user.ID].TelegramID = user.TelegramID,
                                ![user.ID].Password =
                                    <<GenerateFromPassword("")>>],
          err |-> NilError]

Update(rows, unique, user, fault) ==
    IF fault
    THEN [rows |-> rows, err |-> <<"failed to update user", ConnError>>]
    ELSE IF user.ID \notin Rows(rows)
    THEN [rows |-> rows, err |-> <<"user with id %d not found">>]
    ELSE IF unique /\ Duplicates(rows, user.ID, user)
    THEN [rows |-> rows, err |-> <<"failed to update user", UniqueViolation>>]
    ELSE [rows |-> [rows EXCEPT ![user.ID].Email = user.Email,
                                ![user.ID].Username = user.Username,
                                ![user.ID].TelegramID = user.TelegramID],
          err |-> NilError]

LinkTelegram(rows, unique, userID, telegramID, fault) ==
    IF fault
    THEN [rows |-> rows, err |-> <<"failed to link telegram", ConnError>>]
    ELSE IF userID \notin Rows(rows)
    THEN [rows |-> rows, err |-> <<"user with id %d not found">>]
    ELSE IF unique /\ \E i \in Rows(rows) \ {userID} :
                          rows[i].TelegramID = <<telegramID>>
    THEN [rows |-> rows, err |-> <<"failed to link telegram", UniqueViolation>>]
    ELSE [rows |-> [rows EXCEPT ![userID].TelegramID = <<telegramID>>],
          err |-> NilError]

(* ---------------------- shared/response: answers ---------------------- *)
(* The answer a handler writes: the status, the error text of an error     *)
(* body, and the user and tokens of a success body.                        *)
StatusOK == 200
StatusCreated == 201
StatusNotFound == 404
StatusConflict == 409
StatusInternalServerError == 500

ErrorResponseWithCode(statusCode, error, code) ==
    [ status |-> statusCode, error |-> error, code |-> code,
      user |-> << >>, tokens |-> << >> ]

SuccessResponse(statusCode, user, tokens) ==
    [ status |-> statusCode, error |-> "", code |-> "",
      user |-> user, tokens |-> tokens ]

UnauthorizedResponse(error) ==
    ErrorResponseWithCode(StatusUnauthorized, error, "UNAUTHORIZED")
NotFound(error) == ErrorResponseWithCode(StatusNotFound, error, "NOT_FOUND")
Conflict(error) == ErrorResponseWithCode(StatusConflict, error, "CONFLICT")
InternalServerError(error) ==
    ErrorResponseWithCode(StatusInternalServerError, error,
                          "INTERNAL_SERVER_ERROR")
Created(user, tokens) == SuccessResponse(StatusCreated, user, tokens)
OK(user, tokens) == SuccessResponse(StatusOK, user, tokens)

(* ------------------- internal/handlers: AuthHandler -------------------- *)
(* What each handler answers for the (user, tokens, err) its service call  *)
(* returned.  err.Error() of a wrapped error is the joined text, so it     *)
(* equals a fixed message only when the error is that message alone.       *)
AuthHandler_Register(user, tokens, err) ==
    IF err # NilError
    THEN IF err = <<"email already exists">>
            \/ err = <<"username already exists">>
         THEN Conflict(err[1])
         ELSE InternalServerError("Failed to register user")
    ELSE Created(user, tokens)

AuthHandler_Login(user, tokens, err) ==
    IF err # NilError
    THEN IF err = <<"invalid credentials">>
         THEN UnauthorizedResponse("Invalid email or password")
         ELSE InternalServerError("Failed to login")
    ELSE OK(user, tokens)

AuthHandler_RefreshToken(tokens, err) ==
    IF err # NilError
    THEN UnauthorizedResponse("Invalid or expired refresh token")
    ELSE OK(<< >>, tokens)

AuthHandler_GetProfile(user, err) ==
    IF err # NilError THEN NotFound("User not found")
    ELSE OK(user, << >>)

AuthHandler_UpdateProfile(user, err) ==
    IF err # NilError
    THEN IF err = <<"email already exists">>
            \/ err = <<"username already exists">>
         THEN Conflict(err[1])
         ELSE InternalServerError("Failed to update profile")
    ELSE OK(user, << >>)

AuthHandler_LinkTelegram(err) ==
    IF err # NilError
    THEN IF err = <<"telegram account already linked to another user">>
         THEN Conflict(err[1])
         ELSE InternalServerError("Failed to link Telegram account")
    ELSE OK(<< >>, << >>)

(* ------------------- token strings a caller can present --------------- *)
(* Besides the tokens this manager issued, a caller can present what other *)
(* parties derive from them: the header's alg replaced with the signature  *)
(* left as it was (or dropped, for "none"), the payload edited with the    *)
(* signature left as it was, the same claims signed afresh under any       *)
(* secret with any HMAC method (a manager constructed with another secret, *)
(* or another holder of the same secret), a token of an instance whose     *)
(* clock runs ClockSkew seconds ahead, and text that is no JWT at all.     *)
ZeroClaims ==
    [ UserID |-> 0, Email |-> "", Username |-> "", Type |-> "", Subject |-> "",
      IssuedAt |-> 0, ExpiresAt |-> 0, NotBefore |-> 0, Issuer |-> "" ]

Malformed == [parts |-> 1, alg |-> "", claims |-> ZeroClaims, sig |-> << >>]

OtherType(tokenType) ==
    IF tokenType = AccessToken THEN RefreshToken ELSE AccessToken

AlgSubstituted(tk) ==
    { [tk EXCEPT !.alg = a] : a \in {"RS256", "HS384", "HS512", "XS000"} }
    \cup { [tk EXCEPT !.alg = "none", !.sig = << >>] }

Resigned(tk) ==
    { SignedString(a, tk.claims, k) : a \in SigningMethodHMAC, k \in Secrets }

Retyped(tk) == [tk EXCEPT !.claims.Type = OtherType(@)]

PostDated(tk) ==
    SignedString(tk.alg,
                 [tk.claims EXCEPT !.IssuedAt = @ + ClockSkew,
                                   !.NotBefore = @ + ClockSkew,
                                   !.ExpiresAt = @ + ClockSkew],
                 tk.sig[1].key)

Genuine == { h.tok : h \in held }

TokenStrings ==
    Genuine \cup {Malformed}
    \cup UNION { AlgSubstituted(tk) : tk \in Genuine }
    \cup UNION { Resigned(tk) : tk \in Genuine }
    \cup { Retyped(tk) : tk \in Genuine }
    \cup { PostDated(tk) : tk \in Genuine }

AuthHeaders ==
    { << >>, <<"Bearer ">>, <<"Bearer">> }
    \cup { <<"Bearer ", tk>> : tk \in TokenStrings }
    \cup { <<"Basic ", tk>> : tk \in Genuine }
    \cup { <<"bearer ", tk>> : tk \in Genuine }

(* ------------------------------ the state ----------------------------- *)
(* now          the wall clock (ticks)                                     *)
(* jwtManager   the JWTManager built at start-up, never assigned again     *)
(* held         tokens issued so far, each with the instant and the        *)
(*              lifetime it was issued with                                *)
(* out          the call being answered: what it was given (the identity a *)
(*              pair was asked for, the header, the token), when, and what *)
(*              it returns; NoCall between calls.  Calls are pure, take no *)
(*              time on this clock and are taken one at a time.            *)
(* users        the rows of the users table                                *)
(* uniqueIndex  whether the table carries unique constraints               *)
(* procs        the requests being handled by the account service, one per *)
(*              connection: the handler, the store call it makes next, its *)
(*              request, its local user, and once done its answer and the  *)
(*              service's error; with them the table as it was when the    *)
(*              request arrived and the store calls that failed            *)
(* used         the refresh tokens a successful refresh has been made with, *)
(*              each with the instant of its first use                     *)
Procs == {1, 2}

NoReq ==
    [ UserID |-> 0, Email |-> << >>, Username |-> << >>, Password |-> "",
      TelegramID |-> 0, Authorization |-> << >> ]

NoAnswer ==
    [ status |-> 0, error |-> "", code |-> "", user |-> << >>,
      tokens |-> << >> ]

IdleProc ==
    [ op |-> "idle", pc |-> "idle", req |-> NoReq, user |-> << >>,
      res |-> NoAnswer, err |-> NilError, before |-> << >>, faults |-> {} ]

NoGate ==
    [ aborted |-> FALSE, status |-> 0, error |-> "", code |-> "",
      nextCalls |-> 0, keys |-> << >> ]

Outcome(op, id, header, token, claims, err, pair, gate) ==
    [ op |-> op, at |-> now, id |-> id, header |-> header, token |-> token,
      claims |-> claims, err |-> err, pair |-> pair, gate |-> gate ]

Issued(pair, j, t) ==
    IF pair = << >> THEN {}
    ELSE { [tok |-> pair[1].AccessToken, t |-> t, d |-> j.accessTokenDuration],
           [tok |-> pair[1].RefreshToken, t |-> t, d |-> j.refreshTokenDuration] }

IsExpiredError(err) ==
    \E i \in 1..Len(err) : err[i] = "token is expired"

NoCall ==
    [ op |-> "none", at |-> 0, id |-> << >>, header |-> << >>,
      token |-> << >>, claims |-> << >>, err |-> NilError, pair |-> << >>,
      gate |-> NoGate ]

NoAccounts ==
    /\ users = << >>
    /\ uniqueIndex = TRUE
    /\ procs = [p \in Procs |-> IdleProc]

Init ==
    /\ now = 0
    /\ \E a \in AccessDurations, r \in RefreshDurations :
          jwtManager = NewJWTManager(OwnSecret, a, r)
    /\ held = {}
    /\ out = NoCall
    /\ used = {}
    /\ NoAccounts

Tick ==
    /\ out = NoCall
    /\ \A p \in Procs : procs[p] = IdleProc
    /\ now < MaxTime
    /\ now' = now + 1
    /\ UNCHANGED <<jwtManager, held, out, used, acctVars>>

Return ==
    /\ out # NoCall
    /\ out' = NoCall
    /\ UNCHANGED <<now, jwtManager, held, used, acctVars>>

CallGenerateTokenPair(id) ==
    LET r == GenerateTokenPair(jwtManager, id.UserID, id.Email, id.Username, now)
    IN  /\ Cardinality(held \cup Issued(r.pair, jwtManager, now)) <= MaxHeld
        /\ held' = held \cup Issued(r.pair, jwtManager, now)
        /\ out' = Outcome("GenerateTokenPair", <<id>>, << >>, << >>, << >>,
                          r.err, r.pair, NoGate)
        /\ UNCHANGED <<now, jwtManager, used, acctVars>>

CallValidateToken(tokenString) ==
    LET r == AuthService_ValidateToken(jwtManager, tokenString, now)
    IN  /\ out' = Outcome("ValidateToken", << >>, << >>, <<tokenString>>,
                          r.claims, r.err, << >>, NoGate)
        /\ UNCHANGED <<now, jwtManager, held, used, acctVars>>

CallRefreshToken(tokenString) ==
    LET r == AuthService_RefreshToken(jwtManager, tokenString, now)
    IN  /\ Cardinality(held \cup Issued(r.pair, jwtManager, now)) <= MaxHeld
        /\ held' = held \cup Issued(r.pair, jwtManager, now)
        /\ out' = Outcome("RefreshToken", << >>, << >>, <<tokenString>>, << >>,
                          r.err, r.pair, NoGate)
        /\ UNCHANGED <<now, jwtManager, acctVars>>

StrictRequest(authHeader) ==
    /\ out' = Outcome("JWTMiddleware", << >>, authHeader, << >>, << >>,
                      NilError, << >>,
                      JWTMiddleware(jwtManager, authHeader, now))
    /\ UNCHANGED <<now, jwtManager, held, used, acctVars>>

OptionalRequest(authHeader) ==
    /\ out' = Outcome("OptionalJWTMiddleware", << >>, authHeader, << >>, << >>,
                      NilError, << >>,
                      OptionalJWTMiddleware(jwtManager, authHeader, now))
    /\ UNCHANGED <<now, jwtManager, held, used, acctVars>>

Idle == out = NoCall

Next ==
    \/ Tick
    \/ Return
    \/ Idle /\ \E id \in Identities : CallGenerateTokenPair(id)
    \/ Idle /\ \E tk \in TokenStrings : CallValidateToken(tk)
    \/ Idle /\ \E tk \in TokenStrings : CallRefreshToken(tk) /\ UNCHANGED used
    \/ Idle /\ \E h \in AuthHeaders : StrictRequest(h)
    \/ Idle /\ \E h \in AuthHeaders : OptionalRequest(h)

Spec == Init /\ [][Next]_vars

(* Issuing alone, with the manager built from any pair of durations the    *)
(* configuration can yield: config.parseDuration returns whatever          *)
(* time.ParseDuration accepts ("0s", "-1s", "500ms", "1500ms") and         *)
(* NewJWTManager stores it unchecked.                                      *)
AnyDurations == {-2, -1, 0, 1, 2, 3}

IssueInit ==
    /\ now = 0
    /\ \E a \in AnyDurations, r \in AnyDurations :
          jwtManager = NewJWTManager(OwnSecret, a, r)
    /\ held = {}
    /\ out = NoCall
    /\ used = {}
    /\ NoAccounts

IssueNext ==
    \/ Tick
    \/ Return
    \/ Idle /\ \E id \in Identities : CallGenerateTokenPair(id)

IssueSpec == IssueInit /\ [][IssueNext]_vars

(* ----------------- internal/service: the account service --------------- *)
(* One action per store round trip of a handler; what the service does     *)
(* between two round trips belongs to the earlier one's action.  fault     *)
(* says whether this round trip fails.                                     *)
MaxUsers == 2

Emails == {"a@x.com", "b@x.com"}
Usernames == {"alice", "bob"}
Passwords == {"secret1", "secret2"}
TelegramIDs == {7}
UserIDs == 1..MaxUsers

CreateUserRequests ==
    { [NoReq EXCEPT !.Email = <<e>>, !.Username = <<u>>, !.Password = pw] :
        e \in Emails, u \in Usernames, pw \in Passwords }

LoginRequests ==
    { [NoReq EXCEPT !.Email = <<e>>, !.Password = pw] :
        e \in Emails, pw \in Passwords }

UpdateUserRequests ==
    { [NoReq EXCEPT !.UserID = id, !.Email = e, !.Username = u] :
        id \in UserIDs,
        e \in {<< >>} \cup { <<x>> : x \in Emails \cup {"c@x.com"} },
        u \in {<< >>} \cup { <<x>> : x \in Usernames } }

GetProfileRequests == { [NoReq EXCEPT !.UserID = id] : id \in UserIDs }

LinkTelegramRequests ==
    { [NoReq EXCEPT !.UserID = id, !.TelegramID = tg] :
        id \in UserIDs, tg \in TelegramIDs }

Arrived(op, req) ==
    [IdleProc EXCEPT !.op = op, !.req = req, !.before = users]

Goto(q, pc, fault, call) ==
    [q EXCEPT !.pc = pc,
              !.faults = IF fault THEN @ \cup {call} ELSE @]

Answered(q, res, err, fault, call) ==
    [q EXCEPT !.pc = "done", !.res = res, !.err = err,
              !.faults = IF fault THEN @ \cup {call} ELSE @]

Remember(pair) ==
    IF Cardinality(held \cup Issued(pair, jwtManager, now)) <= MaxHeld
    THEN held \cup Issued(pair, jwtManager, now)
    ELSE held

Registering ==
    { p \in Procs : procs[p].op = "Register" /\ procs[p].pc # "done" }

Register_CheckEmailExists_Unchecked(p, req, fault) ==
    /\ procs[p] = IdleProc
    /\ Len(users) + Cardinality(Registering) < MaxUsers
    /\ LET q == Arrived("Register", req)
           c == CheckEmailExists(users, req.Email[1], fault)
           err == Errorf("failed to check email", c.err)
       IN  procs' = [procs EXCEPT ![p] =
                IF c.err # NilError
                THEN Answered(q, AuthHandler_Register(<< >>, << >>, err), err,
                              fault, "CheckEmailExists")
                ELSE Goto(q, "CheckUsernameExists", fault, "CheckEmailExists")]
    /\ UNCHANGED <<now, jwtManager, held, out, used, users, uniqueIndex>>

Register_CheckEmailExists(p, req, fault) ==
    /\ procs[p] = IdleProc
    /\ Len(users) + Cardinality(Registering) < MaxUsers
    /\ LET q == Arrived("Register", req)
           c == CheckEmailExists(users, req.Email[1], fault)
           err == IF c.err # NilError
                  THEN Errorf("failed to check email", c.err)
                  ELSE IF c.exists THEN ErrorsNew("email already exists")
                  ELSE NilError
       IN  procs' = [procs EXCEPT ![p] =
                IF err # NilError
                THEN Answered(q, AuthHandler_Register(<< >>, << >>, err), err,
                              fault, "CheckEmailExists")
                ELSE Goto(q, "CheckUsernameExists", fault, "CheckEmailExists")]
    /\ UNCHANGED <<now, jwtManager, held, out, used, users, uniqueIndex>>

Register_CheckUsernameExists(p, fault, hashFault) ==
    /\ procs[p].op = "Register"
    /\ procs[p].pc = "CheckUsernameExists"
    /\ fault => ~hashFault
    /\ LET q == procs[p]
           c == CheckUsernameExists(users, q.req.Username[1], fault)
           hashed == ~fault /\ ~c.exists
           err == IF c.err # NilError
                  THEN Errorf("failed to check username", c.err)
                  ELSE IF c.exists THEN ErrorsNew("username already exists")
                  ELSE IF hashFault
                  THEN Errorf("failed to hash password", <<HashError>>)
                  ELSE NilError
           user == HashPassword(NewUser(q.req.Email[1], q.req.Username[1],
                                        q.req.Password))
       IN  procs' = [procs EXCEPT ![p] =
                IF err # NilError
                THEN Answered(q, AuthHandler_Register(<< >>, << >>, err), err,
                              fault \/ (hashed /\ hashFault),
                              IF hashed THEN "HashPassword"
                              ELSE "CheckUsernameExists")
                ELSE Goto([q EXCEPT !.user = <<user>>], "Create", fault,
                          "CheckUsernameExists")]
    /\ UNCHANGED <<now, jwtManager, held, out, used, users, uniqueIndex>>

(* Register as it would be were signing able to fail: the error is        *)
(* returned after Create has stored the account.                           *)
Register_Create_SigningFails(p, fault) ==
    /\ procs[p].op = "Register"
    /\ procs[p].pc = "Create"
    /\ LET q == procs[p]
           c == Create(users, uniqueIndex, q.user[1], fault)
           err == IF c.err # NilError
                  THEN Errorf("failed to create user", c.err)
                  ELSE Errorf("failed to generate tokens",
                              <<"failed to sign token">>)
       IN  /\ users' = c.rows
           /\ procs' = [procs EXCEPT ![p] =
                    Answered([q EXCEPT !.user = <<c.user>>],
                             AuthHandler_Register(<< >>, << >>, err), err,
                             fault, "Create")]
    /\ UNCHANGED <<now, jwtManager, out, used, uniqueIndex>>

Register_Create(p, fault) ==
    /\ procs[p].op = "Register"
    /\ procs[p].pc = "Create"
    /\ LET q == procs[p]
           c == Create(users, uniqueIndex, q.user[1], fault)
           tokens == GenerateTokenPair(jwtManager, c.user.ID, c.user.Email,
                                       c.user.Username, now)
           err == IF c.err # NilError
                  THEN Errorf("failed to create user", c.err)
                  ELSE IF tokens.err # NilError
                  THEN Errorf("failed to generate tokens", tokens.err)
                  ELSE NilError
           res == IF err # NilError
                  THEN AuthHandler_Register(<< >>, << >>, err)
                  ELSE AuthHandler_Register(<<ToResponse(c.user)>>,
                                            tokens.pair, NilError)
       IN  /\ users' = c.rows
           /\ procs' = [procs EXCEPT ![p] =
                    Answered([q EXCEPT !.user = <<c.user>>], res, err, fault,
                             "Create")]
    /\ UNCHANGED <<now, jwtManager, out, used, uniqueIndex>>

Login(p, req, fault) ==
    /\ procs[p] = IdleProc
    /\ \E g \in GetByEmail(users, req.Email[1], fault) :
         LET q == Arrived("Login", req)
             tokens == GenerateTokenPair(jwtManager, g.user[1].ID,
                                         g.user[1].Email, g.user[1].Username,
                                         now)
             err == IF g.err # NilError
                    THEN ErrorsNew("invalid credentials")
                    ELSE IF ~CheckPassword(g.user[1], req.Password)
                    THEN ErrorsNew("invalid credentials")
                    ELSE IF tokens.err # NilError
                    THEN Errorf("failed to generate tokens", tokens.err)
                    ELSE NilError
             res == IF err # NilError
                    THEN AuthHandler_Login(<< >>, << >>, err)
                    ELSE AuthHandler_Login(<<ToResponse(g.user[1])>>,
                                           tokens.pair, NilError)
         IN  procs' = [procs EXCEPT ![p] =
                  Answered([q EXCEPT !.user = g.user], res, err, fault,
                           "GetByEmail")]
    /\ UNCHANGED <<now, jwtManager, out, used, users, uniqueIndex>>

GetProfile(p, req, fault) ==
    /\ procs[p] = IdleProc
    /\ \E g \in GetByID(users, req.UserID, fault) :
         LET q == Arrived("GetProfile", req)
             err == IF g.err # NilError
                    THEN Errorf("user not found", g.err) ELSE NilError
             res == IF err # NilError THEN AuthHandler_GetProfile(<< >>, err)
                    ELSE AuthHandler_GetProfile(<<ToResponse(g.user[1])>>,
                                                NilError)
         IN  procs' = [procs EXCEPT ![p] =
                  Answered([q EXCEPT !.user = g.user], res, err, fault,
                           "GetByID")]
    /\ UNCHANGED <<now, jwtManager, held, out, used, users, uniqueIndex>>

(* UpdateProfile between its round trips: the next store call, and the     *)
(* local user as assigned so far.                                          *)
UsernameStage(user, req) ==
    IF req.Username # << >> /\ req.Username[1] # user.Username
    THEN [pc |-> "CheckUsernameExists", user |-> user]
    ELSE [pc |-> "Update",
          user |-> IF req.Username # << >>
                   THEN [user EXCEPT !.Username = req.Username[1]] ELSE user]

EmailStage_AlwaysChecks(user, req) ==
    IF req.Email # << >>
    THEN [pc |-> "CheckEmailExists", user |-> user]
    ELSE UsernameStage(user, req)

EmailStage(user, req) ==
    IF req.Email # << >> /\ req.Email[1] # user.Email
    THEN [pc |-> "CheckEmailExists", user |-> user]
    ELSE UsernameStage(IF req.Email # << >>
                       THEN [user EXCEPT !.Email = req.Email[1]] ELSE user,
                       req)

UpdateProfile_GetByID(p, req, fault) ==
    /\ procs[p] = IdleProc
    /\ \E g \in GetByID(users, req.UserID, fault) :
         LET q == Arrived("UpdateProfile", req)
             err == Errorf("user not found", g.err)
         IN  procs' = [procs EXCEPT ![p] =
                  IF g.err # NilError
                  THEN Answered(q, AuthHandler_UpdateProfile(<< >>, err), err,
                                fault, "GetByID")
                  ELSE Goto([q EXCEPT !.user =
                                 <<EmailStage(g.user[1], req).user>>],
                            EmailStage(g.user[1], req).pc, fault, "GetByID")]
    /\ UNCHANGED <<now, jwtManager, held, out, used, users, uniqueIndex>>

UpdateProfile_CheckEmailExists(p, fault) ==
    /\ procs[p].op = "UpdateProfile"
    /\ procs[p].pc = "CheckEmailExists"
    /\ LET q == procs[p]
           c == CheckEmailExists(users, q.req.Email[1], fault)
           err == IF c.err # NilError
                  THEN Errorf("failed to check email", c.err)
                  ELSE IF c.exists THEN ErrorsNew("email already exists")
                  ELSE NilError
           stage == UsernameStage([q.user[1] EXCEPT !.Email = q.req.Email[1]],
                                  q.req)
       IN  procs' = [procs EXCEPT ![p] =
                IF err # NilError
                THEN Answered(q, AuthHandler_UpdateProfile(<< >>, err), err,
                              fault, "CheckEmailExists")
                ELSE Goto([q EXCEPT !.user = <<stage.user>>], stage.pc, fault,
                          "CheckEmailExists")]
    /\ UNCHANGED <<now, jwtManager, held, out, used, users, uniqueIndex>>

UpdateProfile_CheckUsernameExists(p, fault) ==
    /\ procs[p].op = "UpdateProfile"
    /\ procs[p].pc = "CheckUsernameExists"
    /\ LET q == procs[p]
           c == CheckUsernameExists(users, q.req.Username[1], fault)
           err == IF c.err # NilError
                  THEN Errorf("failed to check username", c.err)
                  ELSE IF c.exists THEN ErrorsNew("username already exists")
                  ELSE NilError
           user == [q.user[1] EXCEPT !.Username = q.req.Username[1]]
       IN  procs' = [procs EXCEPT ![p] =
                IF err # NilError
                THEN Answered(q, AuthHandler_UpdateProfile(<< >>, err), err,
                              fault, "CheckUsernameExists")
                ELSE Goto([q EXCEPT !.user = <<user>>], "Update", fault,
                          "CheckUsernameExists")]
    /\ UNCHANGED <<now, jwtManager, held, out, used, users, uniqueIndex>>

UpdateProfile_Update(p, fault) ==
    /\ procs[p].op = "UpdateProfile"
    /\ procs[p].pc = "Update"
    /\ LET q == procs[p]
           u == Update(users, uniqueIndex, q.user[1], fault)
           err == IF u.err # NilError
                  THEN Errorf("failed to update user", u.err) ELSE NilError
           res == IF err # NilError THEN AuthHandler_UpdateProfile(<< >>, err)
                  ELSE AuthHandler_UpdateProfile(<<ToResponse(q.user[1])>>,
                                                 NilError)
       IN  /\ users' = u.rows
           /\ procs' = [procs EXCEPT ![p] =
                    Answered(q, res, err, fault, "Update")]
    /\ UNCHANGED <<now, jwtManager, held, out, used, uniqueIndex>>

LinkTelegram_GetByTelegramID_NoCheck(p, req, fault) ==
    /\ procs[p] = IdleProc
    /\ \E g \in GetByTelegramID(users, req.TelegramID, fault) :
         procs' = [procs EXCEPT ![p] =
             Goto([Arrived("LinkTelegram", req) EXCEPT !.user = g.user],
                  "LinkTelegram", fault, "GetByTelegramID")]
    /\ UNCHANGED <<now, jwtManager, held, out, used, users, uniqueIndex>>

LinkTelegram_GetByTelegramID(p, req, fault) ==
    /\ procs[p] = IdleProc
    /\ \E g \in GetByTelegramID(users, req.TelegramID, fault) :
         LET q == Arrived("LinkTelegram", req)
             err == ErrorsNew("telegram account already linked to another user")
         IN  procs' = [procs EXCEPT ![p] =
                  IF g.err = NilError /\ g.user[1].ID # req.UserID
                  THEN Answered([q EXCEPT !.user = g.user],
                                AuthHandler_LinkTelegram(err), err, fault,
                                "GetByTelegramID")
                  ELSE Goto([q EXCEPT !.user = g.user], "LinkTelegram", fault,
                            "GetByTelegramID")]
    /\ UNCHANGED <<now, jwtManager, held, out, used, users, uniqueIndex>>

LinkTelegram_LinkTelegram(p, fault) ==
    /\ procs[p].op = "LinkTelegram"
    /\ procs[p].pc = "LinkTelegram"
    /\ LET q == procs[p]
           l == LinkTelegram(users, uniqueIndex, q.req.UserID,
                             q.req.TelegramID, fault)
           err == IF l.err # NilError
                  THEN Errorf("failed to link telegram", l.err) ELSE NilError
       IN  /\ users' = l.rows
           /\ procs' = [procs EXCEPT ![p] =
                    Answered(q, AuthHandler_LinkTelegram(err), err, fault,
                             "LinkTelegram")]
    /\ UNCHANGED <<now, jwtManager, held, out, used, uniqueIndex>>

Respond(p) ==
    /\ procs[p].pc = "done"
    /\ procs' = [procs EXCEPT ![p] = IdleProc]
    /\ UNCHANGED <<now, jwtManager, held, out, used, users, uniqueIndex>>

TypeOK ==
    /\ now \in 0..MaxTime
    /\ Cardinality(held) <= MaxHeld
    /\ out.at <= now

(* The requests joined to what the client does with the tokens answered:   *)
(* Keep adds them to the tokens it may present later, Drop does not.       *)
Keep(p) == held' = Remember(procs'[p].res.tokens)
Drop == UNCHANGED held

AccountInit(accessDurations, constraints) ==
    /\ now = 0
    /\ \E a \in accessDurations, r \in RefreshDurations :
          jwtManager = NewJWTManager(OwnSecret, a, r)
    /\ held = {}
    /\ out = NoCall
    /\ used = {}
    /\ users = << >>
    /\ uniqueIndex \in constraints
    /\ procs = [p \in Procs |-> IdleProc]

(* One connection, one request at a time, any request, any round trip      *)
(* failing.                                                                *)
AccountNext ==
    \/ \E req \in CreateUserRequests, fault \in BOOLEAN :
          Register_CheckEmailExists(1, req, fault)
    \/ \E fault, hashFault \in BOOLEAN :
          Register_CheckUsernameExists(1, fault, hashFault)
    \/ \E fault \in BOOLEAN : Register_Create(1, fault) /\ Drop
    \/ \E req \in LoginRequests, fault \in BOOLEAN :
          Login(1, req, fault) /\ Drop
    \/ \E req \in GetProfileRequests, fault \in BOOLEAN :
          GetProfile(1, req, fault)
    \/ \E req \in UpdateUserRequests, fault \in BOOLEAN :
          UpdateProfile_GetByID(1, req, fault)
    \/ \E fault \in BOOLEAN : UpdateProfile_CheckEmailExists(1, fault)
    \/ \E fault \in BOOLEAN : UpdateProfile_CheckUsernameExists(1, fault)
    \/ \E fault \in BOOLEAN : UpdateProfile_Update(1, fault)
    \/ \E req \in LinkTelegramRequests, fault \in BOOLEAN :
          LinkTelegram_GetByTelegramID(1, req, fault)
    \/ \E fault \in BOOLEAN : LinkTelegram_LinkTelegram(1, fault)
    \/ Respond(1)

AccountSpec == AccountInit({2}, BOOLEAN) /\ [][AccountNext]_vars

(* One client through the life of its tokens: it registers, logs in,       *)
(* changes its profile, links its telegram account and refreshes with the  *)
(* tokens it was given, while the clock runs; no round trip fails.         *)
ClientEmails == {"a@x.com", "b@x.com"}
ClientUsernames == {"alice"}
ClientPassword == "secret1"

Refresh_SingleUse(tokenString) ==
    /\ IF \E u \in used : u.tok = tokenString
       THEN /\ out' = Outcome("RefreshToken", << >>, << >>, <<tokenString>>,
                              << >>, <<"invalid refresh token">>, << >>,
                              NoGate)
            /\ UNCHANGED <<now, jwtManager, held, acctVars>>
       ELSE CallRefreshToken(tokenString)
    /\ used' = IF out'.err = NilError
               THEN used \cup {[tok |-> tokenString, at |-> now]}
               ELSE used

Refresh(tokenString) ==
    /\ CallRefreshToken(tokenString)
    /\ used' = IF out'.err = NilError /\ ~\E u \in used : u.tok = tokenString
               THEN used \cup {[tok |-> tokenString, at |-> now]}
               ELSE used

LifetimeNext ==
    \/ Tick
    \/ Return
    \/ Idle /\ procs[1] = IdleProc /\ \E tk \in Genuine : Refresh(tk)
    \/ Idle /\ \E req \in CreateUserRequests :
          /\ req.Email[1] = "a@x.com"
          /\ req.Username[1] \in ClientUsernames
          /\ req.Password = ClientPassword
          /\ Register_CheckEmailExists(1, req, FALSE)
    \/ Register_CheckUsernameExists(1, FALSE, FALSE)
    \/ Register_Create(1, FALSE) /\ Keep(1)
    \/ Idle /\ \E req \in LoginRequests :
          /\ req.Password = ClientPassword
          /\ Login(1, req, FALSE) /\ Keep(1)
    \/ Idle /\ \E req \in UpdateUserRequests :
          /\ req.UserID = 1
          /\ req.Email \in {<< >>} \cup { <<e>> : e \in ClientEmails }
          /\ req.Username \in {<< >>} \cup { <<u>> : u \in ClientUsernames }
          /\ UpdateProfile_GetByID(1, req, FALSE)
    \/ UpdateProfile_CheckEmailExists(1, FALSE)
    \/ UpdateProfile_Update(1, FALSE)
    \/ Idle /\ \E req \in LinkTelegramRequests :
          /\ req.UserID = 1
          /\ LinkTelegram_GetByTelegramID(1, req, FALSE)
    \/ LinkTelegram_LinkTelegram(1, FALSE)
    \/ Respond(1)

LifetimeSpec == AccountInit(AccessDurations, {TRUE}) /\ [][LifetimeNext]_vars

(* Two connections registering, their round trips interleaved freely.      *)
RaceNext ==
    \E p \in Procs :
        \/ \E req \in CreateUserRequests, fault \in BOOLEAN :
              Register_CheckEmailExists(p, req, fault)
        \/ \E fault, hashFault \in BOOLEAN :
              Register_CheckUsernameExists(p, fault, hashFault)
        \/ \E fault \in BOOLEAN : Register_Create(p, fault) /\ Drop
        \/ Respond(p)

RaceSpec == AccountInit({2}, BOOLEAN) /\ [][RaceNext]_vars

(* A client whose Register was answered with an error sends the same       *)
(* request again: connection 1 carries the first attempt, any round trip   *)
(* or the hashing failing, and keeps its answer while connection 2 carries *)
(* the retry, on which nothing fails; the next request is sent when both   *)
(* have been answered.                                                     *)
Retry(req) ==
    /\ procs[1].op = "Register"
    /\ procs[1].pc = "done"
    /\ procs[1].err # NilError
    /\ req = procs[1].req
    /\ Register_CheckEmailExists(2, req, FALSE)

RetryNext ==
    \/ \E req \in CreateUserRequests, fault \in BOOLEAN :
          procs[2] = IdleProc /\ Register_CheckEmailExists(1, req, fault)
    \/ \E fault, hashFault \in BOOLEAN :
          Register_CheckUsernameExists(1, fault, hashFault)
    \/ \E fault \in BOOLEAN : Register_Create(1, fault) /\ Drop
    \/ procs[2].pc \in {"idle", "done"} /\ Respond(1)
    \/ \E req \in CreateUserRequests : Retry(req)
    \/ Register_CheckUsernameExists(2, FALSE, FALSE)
    \/ Register_Create(2, FALSE) /\ Drop
    \/ procs[1] = IdleProc /\ Respond(2)

RetrySpec == AccountInit({2}, BOOLEAN) /\ [][RetryNext]_vars

(* ----------------- the routes behind the strict gate ------------------- *)
(* protected.Use(JWTMiddleware): the gate runs first and, unless it aborts, *)
(* the handler, which takes the user id from the context and the rest of   *)
(* the request from the body.  An answer of the gate ends the request.     *)
Route(p, op, authHeader, body, handler) ==
    LET g == JWTMiddleware(jwtManager, authHeader, now)
        req == [body EXCEPT !.Authorization = authHeader]
    IN  IF g.aborted \/ ~GetUserIDFromContext(g.keys).ok
        THEN /\ procs[p] = IdleProc
             /\ procs' = [procs EXCEPT ![p] =
                      Answered(Arrived(op, req),
                               IF g.aborted
                               THEN ErrorResponseWithCode(g.status, g.error,
                                                          g.code)
                               ELSE UnauthorizedResponse(
                                        "User not authenticated"),
                               NilError, FALSE, "")]
             /\ UNCHANGED <<now, jwtManager, held, out, used, users,
                            uniqueIndex>>
        ELSE handler

Bound(authHeader, body) ==
    [body EXCEPT
       !.UserID = GetUserIDFromContext(
                      JWTMiddleware(jwtManager, authHeader, now).keys).id,
       !.Authorization = authHeader]

Route_GetProfile(p, authHeader, fault) ==
    Route(p, "GetProfile", authHeader, NoReq,
          GetProfile(p, Bound(authHeader, NoReq), fault))

Route_UpdateProfile(p, authHeader, body, fault) ==
    Route(p, "UpdateProfile", authHeader, body,
          UpdateProfile_GetByID(p, Bound(authHeader, body), fault))

Route_LinkTelegram(p, authHeader, body, fault) ==
    Route(p, "LinkTelegram", authHeader, body,
          LinkTelegram_GetByTelegramID(p, Bound(authHeader, body), fault))

(* Two clients register and keep their tokens; any of them, or anybody     *)
(* holding a copy of a token or a forgery made from one, then calls the    *)
(* protected routes while the clock runs.  The forgeries name the other    *)
(* user, or turn a refresh token into an access token, in a token the      *)
(* forger cannot sign.                                                     *)
Impersonating(tk) ==
    { [tk EXCEPT !.claims.UserID = id] : id \in UserIDs \ {tk.claims.UserID} }

RouteHeaders ==
    { << >> }
    \cup { <<"Bearer ", tk>> : tk \in Genuine }
    \cup { <<"Bearer ", Retyped(tk)>> : tk \in Genuine }
    \cup { <<"Bearer ", f>> : f \in UNION { Impersonating(tk) : tk \in Genuine } }

RouteClients ==
    { [NoReq EXCEPT !.Email = <<"a@x.com">>, !.Username = <<"alice">>,
                    !.Password = ClientPassword],
      [NoReq EXCEPT !.Email = <<"b@x.com">>, !.Username = <<"bob">>,
                    !.Password = ClientPassword] }

RoutePatches ==
    { [NoReq EXCEPT !.Email = <<"c@x.com">>],
      [NoReq EXCEPT !.Username = <<"bob">>] }

RouteLinks == { [NoReq EXCEPT !.TelegramID = tg] : tg \in TelegramIDs }

RouteNext ==
    \/ Tick
    \/ \E req \in RouteClients : Register_CheckEmailExists(1, req, FALSE)
    \/ Register_CheckUsernameExists(1, FALSE, FALSE)
    \/ Register_Create(1, FALSE) /\ Keep(1)
    \/ \E h \in RouteHeaders : Route_GetProfile(1, h, FALSE)
    \/ \E h \in RouteHeaders, body \in RoutePatches :
          Route_UpdateProfile(1, h, body, FALSE)
    \/ UpdateProfile_CheckEmailExists(1, FALSE)
    \/ UpdateProfile_CheckUsernameExists(1, FALSE)
    \/ UpdateProfile_Update(1, FALSE)
    \/ \E h \in RouteHeaders, body \in RouteLinks :
          Route_LinkTelegram(1, h, body, FALSE)
    \/ LinkTelegram_LinkTelegram(1, FALSE)
    \/ Respond(1)

RouteSpec == AccountInit({2}, {TRUE}) /\ [][RouteNext]_vars

(* One account, and on two connections one profile request each for it,    *)
(* their round trips interleaved freely; no round trip fails.               *)
OwnPatches ==
    { r \in UpdateUserRequests :
        /\ r.UserID = 1
        /\ r.Email \in { << >>, <<"c@x.com">> }
        /\ r.Username \in { << >>, <<"bob">> } }

OwnLinks == { r \in LinkTelegramRequests : r.UserID = 1 }

WriteRaceNext ==
    \/ \E req \in RouteClients : Register_CheckEmailExists(1, req, FALSE)
    \/ Register_CheckUsernameExists(1, FALSE, FALSE)
    \/ Register_Create(1, FALSE) /\ Drop
    \/ procs[1].op = "Register" /\ Respond(1)
    \/ \E p \in Procs :
          \/ \E req \in OwnPatches : UpdateProfile_GetByID(p, req, FALSE)
          \/ UpdateProfile_CheckEmailExists(p, FALSE)
          \/ UpdateProfile_CheckUsernameExists(p, FALSE)
          \/ UpdateProfile_Update(p, FALSE)
          \/ \E req \in OwnLinks : LinkTelegram_GetByTelegramID(p, req, FALSE)
          \/ LinkTelegram_LinkTelegram(p, FALSE)

WriteRaceSpec == AccountInit({2}, {TRUE}) /\ [][WriteRaceNext]_vars

(* One session: the client registers once, keeps the pair it is answered   *)
(* and every pair a refresh returns, refreshes with any refresh token it    *)
(* holds while the clock runs, and throws access tokens away.              *)
Forget(h) ==
    /\ h.tok.claims.Type = AccessToken
    /\ held' = held \ {h}
    /\ UNCHANGED <<now, jwtManager, out, used, acctVars>>

SessionNext ==
    \/ Tick
    \/ Return
    \/ Idle /\ \E req \in RouteClients :
          /\ req.Email = <<"a@x.com">>
          /\ Register_CheckEmailExists(1, req, FALSE)
    \/ Register_CheckUsernameExists(1, FALSE, FALSE)
    \/ Register_Create(1, FALSE) /\ Keep(1)
    \/ Respond(1)
    \/ Idle /\ procs[1] = IdleProc /\ \E tk \in Genuine :
          CallRefreshToken(tk) /\ UNCHANGED used
    \/ Idle /\ procs[1] = IdleProc /\ \E h \in held : Forget(h)

SessionSpec == AccountInit(AccessDurations, {TRUE}) /\ [][SessionNext]_vars

(* ======================= what the claims refer to ===================== *)
(* Stated from the token's fields, not through the operators above.        *)
MacUnder(tk, key) ==
    /\ tk.parts = 3
    /\ tk.sig = << [alg |-> tk.alg, key |-> key, text |-> <<tk.alg, tk.claims>>] >>

InWindow(tk, t) ==
    /\ tk.claims.NotBefore * TicksPerSec <= t
    /\ t < tk.claims.ExpiresAt * TicksPerSec

Verifies(tk, t) ==
    /\ tk.alg \in {"HS256", "HS384", "HS512"}
    /\ MacUnder(tk, jwtManager.secretKey)
    /\ InWindow(tk, t)

IdentityOf(claims) ==
    << [ user_id |-> claims.UserID, user_email |-> claims.Email,
         user_username |-> claims.Username, user_claims |-> claims ] >>

BearerToken(h) == Len(h) = 2 /\ h[1] = "Bearer "

Authenticates(h, t) ==
    BearerToken(h) /\ Verifies(h[2], t) /\ h[2].claims.Type = "access"

(* C1 as stated: the access-validation operation (JWTManager.ValidateToken *)
(* behind AuthService.ValidateToken) returns an error for every token of   *)
(* kind Refresh and returns claims only for tokens of kind Access.         *)
C1_ValidateRejectsRefresh ==
    out.op = "ValidateToken" =>
        /\ out.token[1].claims.Type = "refresh" => out.err # << >>
        /\ out.err = << >> => out.claims[1].Type = "access"

(* C1 amended: ValidateToken does not look at the kind.  For a token of    *)
(* kind Refresh it returns the token's claims exactly when the token       *)
(* carries an HMAC signature under the manager's secret and now lies in    *)
(* its validity window, and an error with no claims otherwise; a Refresh   *)
(* token that verifies is refused on the access path by the caller's kind  *)
(* check: the strict gate answers it with 401 and does not continue.       *)
C1_KindCheckedByCaller ==
    /\ (out.op = "ValidateToken" /\ out.token[1].claims.Type = "refresh") =>
          /\ (out.err = << >>) <=> Verifies(out.token[1], out.at)
          /\ out.err = << >> => out.claims = <<out.token[1].claims>>
          /\ out.err # << >> => out.claims = << >>
    /\ ( /\ out.op = "JWTMiddleware"
         /\ BearerToken(out.header)
         /\ Verifies(out.header[2], out.at)
         /\ out.header[2].claims.Type = "refresh" ) =>
          /\ out.gate.aborted
          /\ out.gate.status = 401
          /\ out.gate.nextCalls = 0

C1_Witness ==
    /\ out.op = "ValidateToken"
    /\ out.token[1] \in Genuine
    /\ out.token[1].claims.Type = "refresh"
    /\ out.err = << >>
    /\ out.claims = <<out.token[1].claims>>

(* C2: RefreshAccessToken, reached through AuthService.RefreshToken, given *)
(* a correctly signed, unexpired token of kind Access returns the          *)
(* wrong-token-type error and no pair; a pair is returned only when the    *)
(* presented token verifies and has kind Refresh, and then both tokens of  *)
(* the pair are of the presented token's user.                             *)
C2_RefreshNeedsRefreshKind ==
    out.op = "RefreshToken" =>
        /\ (Verifies(out.token[1], out.at)
              /\ out.token[1].claims.Type = "access") =>
              /\ out.pair = << >>
              /\ out.err = <<"invalid refresh token",
                             "token is not a refresh token">>
        /\ out.pair # << >> =>
              /\ Verifies(out.token[1], out.at)
              /\ out.token[1].claims.Type = "refresh"
              /\ out.err = << >>
        /\ out.pair = << >> => out.err # << >>

C2_Witness ==
    /\ out.op = "RefreshToken"
    /\ out.token[1] \in Genuine
    /\ Verifies(out.token[1], out.at)
    /\ out.token[1].claims.Type = "access"
    /\ out.pair = << >>
    /\ out.err = <<"invalid refresh token", "token is not a refresh token">>

(* C3: the strict gate runs the next handler and attaches the identity     *)
(* context exactly when the header is "Bearer " followed by a non-empty    *)
(* token that verifies and has kind Access; in every other case it writes  *)
(* the unauthorized response, aborts, never runs the next handler and      *)
(* attaches nothing.                                                       *)
C3_StrictGate ==
    out.op = "JWTMiddleware" =>
        IF Authenticates(out.header, out.at)
        THEN /\ out.gate.nextCalls = 1
             /\ ~out.gate.aborted
             /\ out.gate.status = 0
             /\ out.gate.keys = IdentityOf(out.header[2].claims)
        ELSE /\ out.gate.nextCalls = 0
             /\ out.gate.aborted
             /\ out.gate.status = 401
             /\ out.gate.code = "UNAUTHORIZED"
             /\ out.gate.keys = << >>

C3_Witness ==
    /\ out.op = "JWTMiddleware"
    /\ Authenticates(out.header, out.at)
    /\ out.gate.nextCalls = 1
    /\ out.gate.keys = IdentityOf(out.header[2].claims)

(* C4: the optional gate never rejects: whatever the header and the token, *)
(* the next handler runs exactly once, nothing is written and the request  *)
(* is not aborted; when extraction or validation fails (the header         *)
(* "Bearer " with an empty token included) no identity context is          *)
(* attached.                                                               *)
C4_OptionalGateNeverRejects ==
    out.op = "OptionalJWTMiddleware" =>
        /\ out.gate.nextCalls = 1
        /\ ~out.gate.aborted
        /\ out.gate.status = 0
        /\ out.gate.error = ""
        /\ ~Authenticates(out.header, out.at) => out.gate.keys = << >>

C4_Witness ==
    /\ out.op = "OptionalJWTMiddleware"
    /\ out.header = <<"Bearer ">>
    /\ out.gate.nextCalls = 1
    /\ out.gate.keys = << >>

(* C5: the two gates authenticate the same requests: on the same header at *)
(* the same instant the optional gate attaches an identity context exactly *)
(* when the strict gate lets the request continue, and then both attach    *)
(* the same user id, email, username and claims.                           *)
C5_GatesAgree ==
    /\ out.op = "JWTMiddleware" =>
          LET o == OptionalJWTMiddleware(jwtManager, out.header, out.at)
          IN  /\ (o.keys # << >>) <=> (out.gate.nextCalls = 1)
              /\ out.gate.nextCalls = 1 => o.keys = out.gate.keys
              /\ out.gate.nextCalls = 0 => out.gate.keys = << >>
    /\ out.op = "OptionalJWTMiddleware" =>
          LET g == JWTMiddleware(jwtManager, out.header, out.at)
          IN  /\ (out.gate.keys # << >>) <=> (g.nextCalls = 1)
              /\ g.nextCalls = 1 => g.keys = out.gate.keys

C5_Witness ==
    /\ out.op = "OptionalJWTMiddleware"
    /\ out.gate.keys # << >>
    /\ JWTMiddleware(jwtManager, out.header, out.at).nextCalls = 1
    /\ JWTMiddleware(jwtManager, out.header, out.at).keys = out.gate.keys

(* A token as generateToken makes it under this manager's secret: issued   *)
(* here, or by an instance sharing the secret whose clock runs ahead.      *)
Generated(tk) ==
    tk \in Genuine \cup { PostDated(g) : g \in Genuine }

(* C6 as stated: round trip with both ends of the window included: for a   *)
(* token made by generateToken and not-before <= now <= expires-at,        *)
(* ValidateToken under the same secret succeeds and returns its claims.    *)
C6_RoundTripClosedWindow ==
    ( /\ out.op = "ValidateToken"
      /\ Generated(out.token[1])
      /\ out.token[1].claims.NotBefore * TicksPerSec <= out.at
      /\ out.at <= out.token[1].claims.ExpiresAt * TicksPerSec ) =>
        /\ out.err = << >>
        /\ out.claims = <<out.token[1].claims>>

(* C6 amended: round trip with expires-at excluded: for a token made by    *)
(* generateToken and not-before <= now < expires-at, ValidateToken under   *)
(* the same secret succeeds and returns claims equal to the signed ones in *)
(* every field; at now = expires-at and later it returns an error.         *)
C6_RoundTrip ==
    (out.op = "ValidateToken" /\ Generated(out.token[1])) =>
        /\ InWindow(out.token[1], out.at) =>
              /\ out.err = << >>
              /\ out.claims = <<out.token[1].claims>>
        /\ out.at >= out.token[1].claims.ExpiresAt * TicksPerSec =>
              /\ out.err # << >>
              /\ out.claims = << >>

C6_Witness ==
    /\ out.op = "ValidateToken"
    /\ out.token[1] \in Genuine
    /\ out.at = out.token[1].claims.ExpiresAt * TicksPerSec - 1
    /\ out.at > out.token[1].claims.NotBefore * TicksPerSec
    /\ out.err = << >>
    /\ out.claims = <<out.token[1].claims>>

(* C7: a token signed under a secret other than the manager's is refused   *)
(* by ValidateToken whatever its claims and the time, and so by            *)
(* RefreshAccessToken and by both gates.                                   *)
SignedUnderOtherSecret(tk) ==
    /\ tk.parts = 3
    /\ tk.sig # << >>
    /\ tk.sig[1].key # jwtManager.secretKey
    /\ MacUnder(tk, tk.sig[1].key)

C7_OtherSecretRejected ==
    /\ (out.op = "ValidateToken" /\ SignedUnderOtherSecret(out.token[1])) =>
          out.err # << >> /\ out.claims = << >>
    /\ (out.op = "RefreshToken" /\ SignedUnderOtherSecret(out.token[1])) =>
          out.err # << >> /\ out.pair = << >>
    /\ ( /\ out.op = "JWTMiddleware"
         /\ BearerToken(out.header)
         /\ SignedUnderOtherSecret(out.header[2]) ) =>
          out.gate.aborted /\ out.gate.nextCalls = 0 /\ out.gate.keys = << >>
    /\ ( /\ out.op = "OptionalJWTMiddleware"
         /\ BearerToken(out.header)
         /\ SignedUnderOtherSecret(out.header[2]) ) =>
          out.gate.keys = << >>

C7_Witness ==
    /\ out.op = "ValidateToken"
    /\ SignedUnderOtherSecret(out.token[1])
    /\ out.token[1].alg = "HS256"
    /\ InWindow(out.token[1], out.at)
    /\ out.err # << >>

(* C8 as stated: ValidateToken refuses every token whose declared          *)
(* algorithm is not HS256, other HMAC methods included, whether or not the *)
(* signature is correct for the shared secret.                             *)
C8_OnlyHS256Accepted ==
    ( /\ out.op = "ValidateToken"
      /\ out.token[1].parts = 3
      /\ out.token[1].alg # "HS256" ) =>
        out.err # << >>

(* C8 amended: ValidateToken refuses every token whose declared algorithm  *)
(* is not of the HMAC family ("none", the asymmetric methods, unknown      *)
(* names), whatever its signature; a token declaring HS384 or HS512 is     *)
(* accepted exactly when its MAC is correct for the shared secret and now  *)
(* lies in its window.                                                     *)
C8_NonHMACRejected ==
    (out.op = "ValidateToken" /\ out.token[1].parts = 3) =>
        /\ out.token[1].alg \notin {"HS256", "HS384", "HS512"} =>
              out.err # << >> /\ out.claims = << >>
        /\ out.token[1].alg \in {"HS384", "HS512"} =>
              ((out.err = << >>) <=>
                  /\ MacUnder(out.token[1], jwtManager.secretKey)
                  /\ InWindow(out.token[1], out.at))

C8_Witness ==
    /\ out.op = "ValidateToken"
    /\ out.token[1].parts = 3
    /\ out.token[1].alg = "none"
    /\ InWindow(out.token[1], out.at)
    /\ out.err # << >>
    /\ out.claims = << >>

(* C9: a token issued at t with lifetime d is refused by ValidateToken at  *)
(* every now >= t + d; once ValidateToken refuses a token as expired it    *)
(* refuses it at every later instant; and no step that leaves the clock    *)
(* where it is turns a token that is accepted into one that is refused.    *)
ExpiredIsRefused ==
    \A h \in held :
        /\ now >= h.t + h.d =>
              ValidateToken(jwtManager, h.tok, now).err # << >>
        /\ ( /\ out.op = "ValidateToken"
             /\ out.token = <<h.tok>>
             /\ out.at >= h.t + h.d ) =>
              /\ out.err # << >>
              /\ IsExpiredError(out.err)
              /\ out.claims = << >>

C9_Lifecycle ==
    [][ /\ ExpiredIsRefused'
        /\ \A h \in held :
              IsExpiredError(ValidateToken(jwtManager, h.tok, now).err) =>
                 ValidateToken(jwtManager', h.tok, now').err # << >>
        /\ now' = now =>
              \A h \in held :
                 ValidateToken(jwtManager, h.tok, now).err = << >> =>
                    ValidateToken(jwtManager', h.tok, now').err = << >> ]_vars

C9_Witness ==
    /\ out.op = "ValidateToken"
    /\ IsExpiredError(out.err)
    /\ \E h \in held :
          /\ out.token = <<h.tok>>
          /\ h.d = TicksPerSec
          /\ out.at = h.t + 2 * TicksPerSec

C12_ExpiresAfterIssued ==
    \A h \in held :
        /\ h.tok.claims.ExpiresAt > h.tok.claims.IssuedAt
        /\ h.tok.claims.Issuer = "rhythmify-auth"

(* C13: the pair a refresh returns carries the user id, email and username *)
(* of the presented refresh token, whatever the users table holds at that  *)
(* moment: after UpdateProfile changed the account's email, a refresh with *)
(* a token issued before the change returns tokens with the old email.     *)
C13_RefreshStale ==
    (out.op = "RefreshToken" /\ out.pair # << >>) =>
        \A tk \in {out.pair[1].AccessToken, out.pair[1].RefreshToken} :
            /\ tk.claims.UserID = out.token[1].claims.UserID
            /\ tk.claims.Email = out.token[1].claims.Email
            /\ tk.claims.Username = out.token[1].claims.Username

C13_Witness ==
    /\ out.op = "RefreshToken"
    /\ out.pair # << >>
    /\ Len(users) = 1
    /\ out.token[1].claims.UserID = users[1].ID
    /\ out.token[1].claims.Email = "a@x.com"
    /\ users[1].Email = "b@x.com"
    /\ out.pair[1].AccessToken.claims.Email = "a@x.com"
    /\ out.pair[1].RefreshToken.claims.Email = "a@x.com"

(* C14: whatever requests were served since it was issued, a token the     *)
(* manager issued is accepted by ValidateToken at every instant of its     *)
(* window, and a refresh with an issued refresh token inside its window    *)
(* succeeds, also when a refresh had been made with that token before.     *)
C14_NoRevocation ==
    /\ \A h \in held :
          InWindow(h.tok, now) =>
              /\ ValidateToken(jwtManager, h.tok, now).err = << >>
              /\ ValidateToken(jwtManager, h.tok, now).claims
                    = <<h.tok.claims>>
    /\ ( /\ out.op = "RefreshToken"
         /\ \E h \in held : h.tok = out.token[1]
         /\ out.token[1].claims.Type = "refresh"
         /\ InWindow(out.token[1], out.at) ) =>
          /\ out.err = << >>
          /\ out.pair # << >>

(* A second successful refresh with the same refresh token, later than the *)
(* first and after the account's profile was changed.                      *)
C14_Witness ==
    /\ out.op = "RefreshToken"
    /\ out.pair # << >>
    /\ \E u \in used : u.tok = out.token[1] /\ u.at < out.at
    /\ Len(users) = 1
    /\ users[1].Email # out.token[1].claims.Email
    /\ users[1].TelegramID # << >>

(* ------------------ the account service, one request ------------------ *)
(* What a finished request of the single connection is compared with: the  *)
(* table as it was when the request arrived.                               *)
Held(rows, field, v) == \E i \in 1..Len(rows) : rows[i][field] = v

Finished(op) == procs[1].op = op /\ procs[1].pc = "done"

(* C15: a Register whose store calls all work fails with "email already    *)
(* exists" when the table holds an account with the requested email, and   *)
(* with "username already exists" when it holds none with the email but    *)
(* one with the requested username; in both cases the handler answers 409  *)
(* with that text, no user and no tokens, and the table is as it was.      *)
(* Otherwise the account is appended with the bcrypt hash of the password  *)
(* and the answer is 201 with its profile and a token pair for it.         *)
C15_RegisterConflict ==
    (Finished("Register") /\ procs[1].faults = {}) =>
        LET q == procs[1]
            emailHeld == Held(q.before, "Email", q.req.Email[1])
            nameHeld == Held(q.before, "Username", q.req.Username[1])
            conflict == IF emailHeld THEN "email already exists"
                        ELSE "username already exists"
        IN  /\ (emailHeld \/ nameHeld) =>
                  /\ q.err = <<conflict>>
                  /\ q.res.status = 409
                  /\ q.res.error = conflict
                  /\ q.res.user = << >>
                  /\ q.res.tokens = << >>
                  /\ users = q.before
            /\ ~(emailHeld \/ nameHeld) =>
                  /\ q.err = << >>
                  /\ q.res.status = 201
                  /\ Len(users) = Len(q.before) + 1
                  /\ users[Len(users)].Email = q.req.Email[1]
                  /\ users[Len(users)].Username = q.req.Username[1]
                  /\ users[Len(users)].Password =
                        <<[bcrypt |-> q.req.Password]>>
                  /\ q.res.user # << >>
                  /\ q.res.user[1].ID = users[Len(users)].ID
                  /\ q.res.tokens # << >>
                  /\ q.res.tokens[1].AccessToken.claims.UserID
                        = users[Len(users)].ID

(* A Register answered 409 right after the Register that created the      *)
(* account with the same email (and another username).                     *)
C15_Witness ==
    /\ Finished("Register")
    /\ procs[1].faults = {}
    /\ Len(procs[1].before) = 1
    /\ procs[1].before[1].Email = procs[1].req.Email[1]
    /\ procs[1].before[1].Username # procs[1].req.Username[1]
    /\ procs[1].res.status = 409
    /\ procs[1].res.error = "email already exists"
    /\ users = procs[1].before

(* C16: two Register calls for the same email or the same username can     *)
(* both pass their existence checks before either creates.  Both then call *)
(* Create: on a table without unique constraints both are answered 201 and *)
(* two accounts share the email (or username); on a table with them one is *)
(* answered 201 and the other 500 "Failed to register user", its error the *)
(* create failure and not a conflict.  Only the table's constraints keep   *)
(* emails and usernames unique.                                            *)
PassedChecks(p) ==
    /\ procs[p].op = "Register"
    /\ procs[p].pc = "done"
    /\ procs[p].faults = {}
    /\ procs[p].user # << >>

SharedField(rows, field) ==
    \E i, j \in 1..Len(rows) : i # j /\ rows[i][field] = rows[j][field]

C16_CheckThenCreate ==
    /\ uniqueIndex =>
          ~SharedField(users, "Email") /\ ~SharedField(users, "Username")
    /\ \A p, r \in Procs :
          ( /\ p # r
            /\ PassedChecks(p) /\ PassedChecks(r)
            /\ \/ procs[p].req.Email = procs[r].req.Email
               \/ procs[p].req.Username = procs[r].req.Username ) =>
            IF uniqueIndex
            THEN /\ {procs[p].res.status, procs[r].res.status} = {201, 500}
                 /\ procs[p].res.status = 500 =>
                       /\ procs[p].err = <<"failed to create user",
                                           "failed to create user",
                                           UniqueViolation>>
                       /\ procs[p].res.error = "Failed to register user"
                       /\ procs[p].res.tokens = << >>
            ELSE /\ procs[p].res.status = 201
                 /\ procs[r].res.status = 201
                 /\ \/ SharedField(users, "Email")
                    \/ SharedField(users, "Username")

C16_Witness ==
    /\ ~uniqueIndex
    /\ PassedChecks(1) /\ PassedChecks(2)
    /\ procs[1].req.Email = procs[2].req.Email
    /\ procs[1].res.status = 201
    /\ procs[2].res.status = 201
    /\ Len(users) = 2
    /\ users[1].Email = users[2].Email

(* C17: a Login that issues no tokens, whether no account has the email or *)
(* the password does not match the account's hash, returns the one error   *)
(* "invalid credentials" and the handler answers the one body 401 "Invalid *)
(* email or password", never 404; tokens are issued only for an account    *)
(* that has the email and whose stored hash matches the password, and are  *)
(* that account's.                                                         *)
C17_LoginEnumeration ==
    Finished("Login") =>
        LET q == procs[1]
            matching == { i \in 1..Len(q.before) :
                            /\ q.before[i].Email = q.req.Email[1]
                            /\ q.before[i].Password
                                  = <<[bcrypt |-> q.req.Password]>> }
        IN  /\ q.res.status # 404
            /\ users = q.before
            /\ (matching = {} \/ q.res.tokens = << >>) =>
                  /\ q.err = <<"invalid credentials">>
                  /\ q.res = [ status |-> 401,
                               error |-> "Invalid email or password",
                               code |-> "UNAUTHORIZED",
                               user |-> << >>, tokens |-> << >> ]
            /\ q.res.tokens # << >> =>
                  /\ q.res.status = 200
                  /\ \E i \in matching :
                        /\ q.res.user = <<ToResponse(q.before[i])>>
                        /\ \A tk \in { q.res.tokens[1].AccessToken,
                                        q.res.tokens[1].RefreshToken } :
                              /\ tk.claims.UserID = q.before[i].ID
                              /\ tk.claims.Email = q.before[i].Email
                              /\ tk.claims.Username = q.before[i].Username

(* A Login with the email of an account and another account's password,    *)
(* answered like a Login with an unknown email.                            *)
C17_Witness ==
    /\ Finished("Login")
    /\ procs[1].faults = {}
    /\ Len(users) = 2
    /\ users[1].Email = procs[1].req.Email[1]
    /\ users[1].Password # <<[bcrypt |-> procs[1].req.Password]>>
    /\ users[2].Password = <<[bcrypt |-> procs[1].req.Password]>>
    /\ procs[1].res.status = 401
    /\ procs[1].err = <<"invalid credentials">>

(* C18 as stated: whenever a store call of an account operation returns an *)
(* infrastructure error, the operation stops there (nothing is written     *)
(* afterwards, no tokens are issued) and the failure reaches the caller as *)
(* an upstream failure, which the handler answers with 500.                *)
C18_FaultsSurface ==
    (procs[1].pc = "done" /\ procs[1].faults # {}) =>
        /\ procs[1].err # << >>
        /\ procs[1].res.status = 500
        /\ procs[1].res.tokens = << >>
        /\ users = procs[1].before

(* C19: LinkTelegram returns the conflict error, answered 409 with the     *)
(* table as it was, exactly when its lookup found a user with another id   *)
(* holding the telegram id; a lookup that does not fail finds such a user  *)
(* whenever one exists.  Otherwise, when the user exists and the write     *)
(* does not fail, the telegram id is stored on the user's row (also when   *)
(* it was there already) and the answer is 200.  Hence a step of           *)
(* non-overlapping requests whose lookup did not fail never makes two      *)
(* users share a telegram id.                                              *)
NoSharedTelegram ==
    \A i, j \in 1..Len(users) :
        (i # j /\ users[i].TelegramID # << >>) =>
            users[i].TelegramID # users[j].TelegramID

C19_LinkInv ==
    Finished("LinkTelegram") =>
        LET q == procs[1]
            id == q.req.UserID
            tg == <<q.req.TelegramID>>
            conflict == <<"telegram account already linked to another user">>
            holders == { i \in 1..Len(q.before) : q.before[i].TelegramID = tg }
            lookedUp == "GetByTelegramID" \notin q.faults
        IN  /\ (q.err = conflict) <=> (q.user # << >> /\ q.user[1].ID # id)
            /\ q.user # << >> => q.user[1].ID \in holders
            /\ (lookedUp /\ holders \ {id} # {} /\ id \notin holders) =>
                  q.err = conflict
            /\ q.err = conflict =>
                  /\ q.res.status = 409
                  /\ users = q.before
            /\ ( /\ q.err # conflict
                 /\ "LinkTelegram" \notin q.faults
                 /\ id \in 1..Len(q.before)
                 /\ lookedUp ) =>
                  /\ q.err = << >>
                  /\ q.res.status = 200
                  /\ users = [q.before EXCEPT ![id].TelegramID = tg]

C20_UpdateRevalidates ==
    /\ (procs[1].op = "UpdateProfile" /\ procs[1].pc = "CheckEmailExists") =>
          /\ procs[1].req.Email # << >>
          /\ procs[1].req.Email[1] # procs[1].user[1].Email
    /\ (procs[1].op = "UpdateProfile"
            /\ procs[1].pc = "CheckUsernameExists") =>
          /\ procs[1].req.Username # << >>
          /\ procs[1].req.Username[1] # procs[1].user[1].Username
    /\ ( /\ Finished("UpdateProfile")
         /\ procs[1].faults = {}
         /\ procs[1].req.UserID \in 1..Len(procs[1].before) ) =>
          LET q == procs[1]
              cur == q.before[q.req.UserID]
              emailClash == /\ q.req.Email # << >>
                            /\ q.req.Email[1] # cur.Email
                            /\ Held(q.before, "Email", q.req.Email[1])
              nameClash == /\ q.req.Username # << >>
                           /\ q.req.Username[1] # cur.Username
                           /\ Held(q.before, "Username", q.req.Username[1])
              conflict == IF emailClash THEN "email already exists"
                          ELSE "username already exists"
          IN  /\ (emailClash \/ nameClash) =>
                    /\ q.err = <<conflict>>
                    /\ q.res = AuthHandler_Register(<< >>, << >>, <<conflict>>)
                    /\ q.res.status = 409
                    /\ users = q.before
              /\ ~(emailClash \/ nameClash) =>
                    /\ q.err = << >>
                    /\ q.res.status = 200
                    /\ users = [q.before EXCEPT ![q.req.UserID] =
                          [cur EXCEPT
                             !.Email = IF q.req.Email = << >> THEN @
                                       ELSE q.req.Email[1],
                             !.Username = IF q.req.Username = << >> THEN @
                                          ELSE q.req.Username[1]]]
                    /\ q.res.user = <<ToResponse(users[q.req.UserID])>>

(* A patch whose email is free and whose username is another account's:    *)
(* refused, and the email is not written.                                  *)
C20_Witness ==
    /\ Finished("UpdateProfile")
    /\ procs[1].faults = {}
    /\ Len(users) = 2
    /\ procs[1].req.UserID = 1
    /\ procs[1].req.Email # << >>
    /\ ~Held(procs[1].before, "Email", procs[1].req.Email[1])
    /\ procs[1].req.Username = <<users[2].Username>>
    /\ procs[1].res.status = 409
    /\ procs[1].res.error = "username already exists"
    /\ users = procs[1].before

(* ------------------- errors at the HTTP boundary ----------------------- *)
(* The kind of the error a finished request ended with, told from what     *)
(* happened and not from the error's text: an upstream failure when the    *)
(* store call that ended it failed, not found when the request names a     *)
(* user id the table has no row for.                                       *)
Upstream(q) ==
    IF q.op = "LinkTelegram" THEN "LinkTelegram" \in q.faults
    ELSE q.faults # {}

Missing(q) ==
    /\ q.op \in {"GetProfile", "UpdateProfile", "LinkTelegram"}
    /\ q.req.UserID \notin { q.before[i].ID : i \in 1..Len(q.before) }

GenericFailures ==
    { "Failed to register user", "Failed to login", "Failed to update profile",
      "Failed to link Telegram account" }

(* C21 as stated: a request that ends with an error is answered by the     *)
(* kind of the error, in every handler: an upstream failure with 500 and   *)
(* one of the fixed generic messages (never 404 or 401), invalid           *)
(* credentials with 401, a profile lookup for a missing user with 404 in   *)
(* GetProfile and in UpdateProfile (a missing user never with 500), and a  *)
(* conflict found by a request none of whose store calls failed with 409.  *)
C21_ErrorTranslation ==
    (procs[1].pc = "done" /\ procs[1].err # << >>) =>
        LET q == procs[1]
        IN  /\ Upstream(q) =>
                  /\ q.res.status = 500
                  /\ q.res.error \in GenericFailures
            /\ (~Upstream(q) /\ q.op = "Login") => q.res.status = 401
            /\ (~Upstream(q) /\ Missing(q)) =>
                  /\ q.res.status # 500
                  /\ q.op \in {"GetProfile", "UpdateProfile"} =>
                        q.res.status = 404
            /\ (q.faults = {} /\ ~Missing(q) /\ q.op # "Login") =>
                  q.res.status = 409

C23_IdentityBinding ==
    LET q == procs[1]
        h == q.req.Authorization
    IN  q.op \in {"GetProfile", "UpdateProfile", "LinkTelegram"} =>
          /\ ~Authenticates(h, now) =>
                /\ q.pc = "done"
                /\ q.res.status = 401
                /\ q.res.user = << >>
                /\ q.user = << >>
                /\ q.req.UserID = 0
                /\ users = q.before
          /\ Authenticates(h, now) =>
                /\ q.req.UserID = h[2].claims.UserID
                /\ Len(users) = Len(q.before)
                /\ \A i \in 1..Len(users) :
                      users[i] # q.before[i] =>
                          users[i].ID = h[2].claims.UserID
                /\ q.res.user # << >> =>
                      q.res.user[1].ID = h[2].claims.UserID
                /\ (q.op # "LinkTelegram" /\ q.user # << >>) =>
                      q.user[1].ID = h[2].claims.UserID

(* The second user's access token changes the second user's email: the     *)
(* first user's row is as it was.                                          *)
C23_Witness ==
    /\ Finished("UpdateProfile")
    /\ procs[1].res.status = 200
    /\ procs[1].req.Authorization[2] \in Genuine
    /\ procs[1].req.Authorization[2].claims.UserID = 2
    /\ users[2].Email = "c@x.com"
    /\ procs[1].before[2].Email = "b@x.com"
    /\ users[1] = procs[1].before[1]

(* ------------------- two writers of one account ------------------------ *)
Succeeded(p) ==
    /\ procs[p].op \in {"UpdateProfile", "LinkTelegram"}
    /\ procs[p].pc = "done"
    /\ procs[p].err = NilError

FieldsSet(q) ==
    IF q.op = "LinkTelegram" THEN {"TelegramID"}
    ELSE { f \in {"Email", "Username"} : q.req[f] # << >> }

Reflects(row, q) ==
    IF q.op = "LinkTelegram" THEN row.TelegramID = <<q.req.TelegramID>>
    ELSE \A f \in FieldsSet(q) : row[f] = q.req[f][1]

(* C24 as stated: when an UpdateProfile and a LinkTelegram, or two          *)
(* UpdateProfile calls setting different fields, for the same user have    *)
(* both returned success, however their store calls interleaved, the       *)
(* stored row carries the telegram id linked and every field each update   *)
(* set.                                                                    *)
C24_NoLostUpdate ==
    \A p, r \in Procs :
        ( /\ p # r
          /\ Succeeded(p) /\ Succeeded(r)
          /\ procs[p].req.UserID = procs[r].req.UserID
          /\ FieldsSet(procs[p]) \cap FieldsSet(procs[r]) = {} ) =>
            /\ Reflects(users[procs[p].req.UserID], procs[p])
            /\ Reflects(users[procs[r].req.UserID], procs[r])

(* ------------------ the credentials of the one client ------------------ *)
(* C25: the account's row keeps the id the store gave it and the hash of   *)
(* the password it was registered with: no step changes either, whatever   *)
(* UpdateProfile and LinkTelegram write.  The Register that created the    *)
(* account answers tokens for that id.  A Login with the registered        *)
(* password succeeds exactly with the email the row holds at that moment,  *)
(* its tokens carrying the row's id and that email; with any other email,  *)
(* the one the account had before an update included, it is answered 401   *)
(* for invalid credentials.                                                *)
C25_Login ==
    /\ \A i \in 1..Len(users) :
          /\ users[i].ID = i
          /\ users[i].Password = <<[bcrypt |-> ClientPassword]>>
    /\ (Finished("Register") /\ procs[1].err = << >>) =>
          /\ procs[1].res.status = 201
          /\ procs[1].res.tokens[1].AccessToken.claims.UserID
                = users[Len(users)].ID
    /\ Finished("Login") =>
          LET q == procs[1]
          IN  IF users # << >> /\ users[1].Email = q.req.Email[1]
              THEN /\ q.err = << >>
                   /\ q.res.status = 200
                   /\ \A tk \in { q.res.tokens[1].AccessToken,
                                   q.res.tokens[1].RefreshToken } :
                         /\ tk.claims.UserID = users[1].ID
                         /\ tk.claims.Email = users[1].Email
              ELSE /\ q.err = <<"invalid credentials">>
                   /\ q.res.status = 401
                   /\ q.res.tokens = << >>

(* C25, over the steps: no step changes a row's id or password hash, and   *)
(* what C25_Login says of Register and Login holds after every step.       *)
C25_CredentialsSurvive ==
    [][ /\ \A i \in 1..Len(users) :
              /\ i <= Len(users')
              /\ users'[i].ID = users[i].ID
              /\ users'[i].Password = users[i].Password
        /\ C25_Login' ]_vars

(* A Login with the email the account was given by an update, after its    *)
(* telegram account was linked as well.                                    *)
C25_Witness ==
    /\ Finished("Login")
    /\ procs[1].req.Email = <<"b@x.com">>
    /\ procs[1].req.Password = ClientPassword
    /\ procs[1].res.status = 200
    /\ users[1].Email = "b@x.com"
    /\ users[1].TelegramID = <<7>>
    /\ procs[1].res.tokens[1].AccessToken.claims.UserID = 1

(* --------------------------- one session ------------------------------- *)
(* The instant of the session's one authentication: the earliest issue of  *)
(* a refresh token the client holds (it never throws one away).            *)
SessionStart ==
    LET issued == { h.t : h \in { g \in held : g.tok.claims.Type = "refresh" } }
    IN  CHOOSE t \in issued : \A u \in issued : t <= u

(* C26 as stated: every token obtained through any chain of refreshes      *)
(* expires no later than the refresh duration after the authentication     *)
(* the session started with.                                               *)
C26_BoundedSession ==
    \A h \in held :
        h.tok.claims.ExpiresAt * TicksPerSec
            <= SessionStart + jwtManager.refreshTokenDuration

(* C26: a refresh issues a pair whose lifetimes are counted from the       *)
(* instant of the refresh: its refresh token expires within one second     *)
(* before that instant plus the refresh duration, and so no earlier than   *)
(* the token presented; every token held expires no later than its own     *)
(* duration after its own issue.  Refreshing before each refresh token     *)
(* expires therefore carries a session past any bound counted from the     *)
(* original authentication.                                               *)
C26_SlidingSession ==
    /\ \A h \in held :
          /\ h.tok.claims.ExpiresAt * TicksPerSec <= h.t + h.d
          /\ h.tok.claims.ExpiresAt * TicksPerSec > h.t + h.d - TicksPerSec
          /\ h.d = IF h.tok.claims.Type = "refresh"
                   THEN jwtManager.refreshTokenDuration
                   ELSE jwtManager.accessTokenDuration
    /\ (out.op = "RefreshToken" /\ out.pair # << >>) =>
          LET new == out.pair[1].RefreshToken.claims
              acc == out.pair[1].AccessToken.claims
          IN  /\ new.ExpiresAt * TicksPerSec
                    <= out.at + jwtManager.refreshTokenDuration
              /\ new.ExpiresAt * TicksPerSec
                    > out.at + jwtManager.refreshTokenDuration - TicksPerSec
              /\ new.ExpiresAt >= out.token[1].claims.ExpiresAt
              /\ acc.ExpiresAt * TicksPerSec
                    > out.at + jwtManager.accessTokenDuration - TicksPerSec
              /\ new.IssuedAt * TicksPerSec <= out.at
              /\ new.Type = "refresh"
              /\ acc.Type = "access"

(* A refresh made with a refresh token that itself came from a refresh:    *)
(* the token it returns expires more than a second after the first refresh *)
(* token of the session has expired.                                       *)
C26_Witness ==
    /\ out.op = "RefreshToken"
    /\ out.pair # << >>
    /\ \E h \in held :
          /\ h.tok = out.token[1]
          /\ h.t > SessionStart
    /\ out.pair[1].RefreshToken.claims.ExpiresAt * TicksPerSec
          >= SessionStart + jwtManager.refreshTokenDuration + TicksPerSec

====
